---- MODULE Spec2Model ----
(***************************************************************************)
(* PyAlarm (src/pyalarm.py): the configuration store, the alarm timer      *)
(* thread, the tray-icon refresh thread and the menu callbacks, as one     *)
(* state machine.  Each thread has a program counter; a step is one access *)
(* to the state the threads share (or one call that touches only the       *)
(* thread's own state).  Wall-clock time is in minutes since midnight of   *)
(* day 0 and is advanced by the environment.                               *)
(***************************************************************************)
EXTENDS Integers, FiniteSets, Sequences, TLC

\* ------------------------------------------------------------- bounds
\* The clock is observed on days 0 .. MaxDay-1, in the hours
\* FirstHour .. FirstHour+NumHours-1 of each day.
MaxDay == 2
FirstHour == 7
NumHours == 2

\* ---------------------------------------------------- program constants
DefaultStart == 8
DefaultEnd == 18
HalfPastMinute == 29
BellMinute == 59
\* last_trigger starts at -1 for both kinds
NoHour == -1
\* pause_until = None, and "nothing yet" in the history variables
None == -1

\* ------------------------------------------------------------- time
\* The minutes of an hour at which the clock is observed: the two target
\* minutes and the minute after each.  The set is closed under the pause
\* lengths of the menu (30 and 60 minutes).
ClockMinutes == {0, HalfPastMinute, 30, BellMinute}
ObsHours == FirstHour .. (FirstHour + NumHours - 1)
Hour(t) == (t \div 60) % 24
Minute(t) == t % 60
Day(t) == t \div (24 * 60)
\* the calendar hour (day and hour-of-day) of a time
CalHour(t) == t \div 60
ObsTimes == { (d * 24 + h) * 60 + m : d \in 0 .. (MaxDay - 1), h \in ObsHours, m \in ClockMinutes }
StartTime == FirstHour * 60
LastDayStart == StartTime + (MaxDay - 1) * 24 * 60
Later(t) == { u \in ObsTimes : u > t }
NextTime(t) == CHOOSE u \in Later(t) : \A v \in Later(t) : u <= v

\* ------------------------------------------------------------- values
\* A value of the JSON configuration: an integer, a boolean, or something
\* that is neither (a string, null, a list).
IntV(n) == [ty |-> "int", n |-> n]
BoolV(b) == [ty |-> "bool", n |-> IF b THEN 1 ELSE 0]
NonInt == [ty |-> "str", n |-> 0]
Keys == {"work_start_hour", "work_end_hour", "sound_enabled"}
Kinds == {"halfpast", "bell"}
default_config == [work_start_hour |-> IntV(DefaultStart), work_end_hour |-> IntV(DefaultEnd), sound_enabled |-> BoolV(TRUE)]
EmptyDict == [k \in {} |-> NonInt]

\* Config.get: the stored value, else the default
Get(cfg, key) == IF key \in DOMAIN cfg THEN cfg[key] ELSE default_config[key]

\* work_start <= hour < work_end, as Python evaluates the chain: "error" is
\* the TypeError of comparing an int with a str or None; the second
\* comparison is made only when the first holds.
InWindow(ws, h, we) == IF ws.ty # "int" THEN "error" ELSE IF ~(ws.n <= h) THEN "out" ELSE IF we.ty # "int" THEN "error" ELSE IF h < we.n THEN "in" ELSE "out"

\* ------------------------------------------------------------- state
Threads == {"timer", "status", "menu"}
GciThreads == {"status", "menu"}

VARIABLES
    now,          \* the wall clock, in minutes
    file,         \* config.json: [st, rec]
    phase,        \* "boot", "loaded", "up", "failed": how far PyAlarmApp() got
    config,       \* Config.config
    running,      \* AlarmTimer.running
    is_paused,    \* PyAlarmApp.is_paused
    pause_until,  \* PyAlarmApp.pause_until (None when unset)
    icon,         \* which image get_current_image last put into the tray icon
    pc,           \* where each thread is
    last_trigger, \* AlarmTimer.run: last_trigger
    t_now,        \* AlarmTimer.run: now
    t_start,      \* AlarmTimer.run: work_start
    t_kind,       \* play_alarm: alarm_type of the call in progress
    t_gnow,       \* play_alarm: now
    t_gstart,     \* play_alarm: work_start
    g_now,        \* get_current_image: now, per calling thread
    g_start,      \* get_current_image: work_start, per calling thread
    m_a,          \* its first argument
    m_b,          \* its second argument
    bootSt,       \* history: what load_config found on disk
    lastReq,      \* history: per kind, the calendar hour of the last play_alarm call
    reqCount,     \* history: per kind, the play_alarm calls made for that calendar hour
    played,       \* history: the sound pygame.mixer.music played last, and for whom
    lastGate,     \* history: per kind, how the last play_alarm call ended, and for which calendar hour
    pauseReq,     \* history: the deadline the last pause_alarms call set
    suspOp,       \* history: which of pause_alarms and unpause_alarms was called last
    stable        \* history: per thread, nothing changed under its get_current_image call

envVars == <<now, file>>
suspVars == <<is_paused, pause_until>>
timerVars == <<last_trigger, t_now, t_start, t_kind, t_gnow, t_gstart>>
gciVars == <<g_now, g_start>>
menuVars == <<m_a, m_b>>
fireHist == <<lastReq, reqCount, played, lastGate>>
suspHist == <<pauseReq, suspOp>>
vars == <<now, file, phase, config, running, is_paused, pause_until, icon, pc, last_trigger, t_now, t_start, t_kind, t_gnow, t_gstart, g_now, g_start, m_a, m_b, bootSt, lastReq, reqCount, played, lastGate, pauseReq, suspOp, stable>>

\* ------------------------------------------------------------- the file
Missing == [st |-> "missing", rec |-> EmptyDict]
Unreadable == [st |-> "unreadable", rec |-> EmptyDict]
Malformed == [st |-> "malformed", rec |-> EmptyDict]
Stored(rec) == [st |-> "ok", rec |-> rec]
\* the records config.json may hold when the program starts
InitRecords == { EmptyDict, ("work_start_hour" :> IntV(9)), [work_start_hour |-> IntV(8), work_end_hour |-> NonInt, sound_enabled |-> BoolV(FALSE)], ("work_start_hour" :> IntV(9)) @@ ("work_end_hour" :> IntV(8)) }
InitFiles == {Missing, Unreadable, Malformed} \cup { Stored(r) : r \in InitRecords }
WriteOutcomes == {"ok", "openfail", "dumpfail"}

\* Config.save_config: the file after the write; a failure is swallowed.
\* open() may fail (the file stays as it was) or the dump may fail after
\* open() truncated the file.
save_config(cfg, f, outcome) == IF outcome = "ok" THEN Stored(cfg) ELSE IF outcome = "openfail" THEN f ELSE Malformed

\* Config.load_config: the dictionary in memory after loading file f, and
\* whether save_config is called.
BackFill_allOrNothing(rec) == IF Keys \subseteq DOMAIN rec THEN [k \in Keys |-> rec[k]] ELSE default_config
BackFill(rec) == [k \in Keys |-> IF k \in DOMAIN rec THEN rec[k] ELSE default_config[k]]
load_config_saving(f) == IF f.st = "ok" THEN [config |-> BackFill(f.rec), save |-> FALSE] ELSE [config |-> default_config, save |-> TRUE]
load_config(f) == IF f.st = "ok" THEN [config |-> BackFill(f.rec), save |-> FALSE] ELSE IF f.st = "missing" THEN [config |-> default_config, save |-> TRUE] ELSE [config |-> default_config, save |-> FALSE]

\* what pygame.mixer.music played last
Silence == [by |-> "none", kind |-> "none"]
Sound(by, kind) == [by |-> by, kind |-> kind]

\* how a play_alarm call for calendar hour cal ended: "suppressed" (paused),
\* "outofwindow" (the second window test), "played", or "failed" (the sound
\* file is missing or pygame raised)
NoGate == [cal |-> None, res |-> "none"]
Gate(cal, res) == [cal |-> cal, res |-> res]

\* ------------------------------------------------------------- modes
\* get_current_image once is_paused and the window are read
image(paused, w) == IF paused THEN "Suspended" ELSE IF w = "in" THEN "Active" ELSE "Inactive"

\* ------------------------------------------------------------- Init
InitWith(files, t) ==
    /\ now = t
    /\ file \in files
    /\ phase = "boot"
    /\ config = EmptyDict
    /\ running = FALSE
    /\ is_paused = FALSE
    /\ pause_until = None
    /\ icon = "none"
    /\ pc = [th \in Threads |-> "off"]
    /\ last_trigger = [k \in Kinds |-> NoHour]
    /\ t_now = None
    /\ t_start = NonInt
    /\ t_kind = "none"
    /\ t_gnow = None
    /\ t_gstart = NonInt
    /\ g_now = [th \in GciThreads |-> None]
    /\ g_start = [th \in GciThreads |-> NonInt]
    /\ m_a = 0
    /\ m_b = 0
    /\ bootSt = "none"
    /\ lastReq = [k \in Kinds |-> None]
    /\ reqCount = [k \in Kinds |-> 0]
    /\ played = Silence
    /\ lastGate = [k \in Kinds |-> NoGate]
    /\ pauseReq = None
    /\ suspOp = "none"
    /\ stable = [th \in GciThreads |-> FALSE]

Init == InitWith(InitFiles, StartTime)

\* ------------------------------------------------------------- startup
\* Config.__init__: load_config, which saves the defaults when no file exists
LoadConfigOn(f, cfgN, fN) ==
    /\ phase = "boot"
    /\ \E outcome \in WriteOutcomes :
        LET r == load_config(f) IN
        /\ cfgN = r.config
        /\ bootSt' = f.st
        /\ IF r.save
           THEN fN = save_config(r.config, f, outcome)
           ELSE outcome = "ok" /\ fN = f
    /\ phase' = "loaded"
    /\ UNCHANGED <<now, running, suspVars, icon, pc, timerVars, gciVars, menuVars, fireHist, suspHist, stable>>
LoadConfig == LoadConfigOn(file, config', file')

\* The rest of PyAlarmApp.__init__: the first get_current_image (nothing is
\* paused yet, so it compares the window) and the two threads.  A TypeError
\* of the comparison ends the constructor.
StartAppOn(cfg) ==
    /\ phase = "loaded"
    /\ LET w == InWindow(Get(cfg, "work_start_hour"), Hour(now), Get(cfg, "work_end_hour")) IN
       IF w = "error"
       THEN /\ phase' = "failed"
            /\ UNCHANGED <<icon, pc, running>>
       ELSE /\ phase' = "up"
            /\ icon' = image(FALSE, w)
            /\ running' = TRUE
            /\ pc' = [th \in Threads |-> IF th = "timer" THEN "loop" ELSE IF th = "status" THEN "g_now" ELSE "idle"]
    /\ UNCHANGED <<envVars, config, suspVars, timerVars, gciVars, menuVars, bootSt, fireHist, suspHist, stable>>
StartApp == StartAppOn(config)

\* ------------------------------------------------------------- the clock
\* Time passes.  Whatever get_current_image call is under way no longer
\* runs at one instant.
Advance ==
    /\ Later(now) # {}
    /\ now' = NextTime(now)
    /\ stable' = [th \in GciThreads |-> FALSE]
    /\ UNCHANGED <<file, phase, config, running, suspVars, icon, pc, timerVars, gciVars, menuVars, bootSt, fireHist, suspHist>>

\* A write to the suspension state or to the configuration by thread th:
\* the get_current_image call of the other thread no longer sees one state.
Disturbed(th) == [o \in GciThreads |-> IF o = th THEN stable[o] ELSE FALSE]

\* ------------------------------------------------------------- AlarmTimer.run
\* What one pass of the loop does once it has the time t, the window
\* (ws, we) and last_trigger lt: "crash" (the comparison raised), the kind
\* to pass to play_alarm, or "none".
TickDecision_noStartCheck(ws, we, t, lt) ==
    IF we.ty # "int" THEN "crash"
    ELSE IF ~(Hour(t) < we.n) THEN "none"
    ELSE IF Minute(t) = HalfPastMinute /\ lt["halfpast"] # Hour(t) THEN "halfpast"
    ELSE IF Minute(t) = BellMinute /\ lt["bell"] # Hour(t) THEN "bell"
    ELSE "none"
TickDecision(ws, we, t, lt) ==
    LET w == InWindow(ws, Hour(t), we) IN
    IF w = "error" THEN "crash"
    ELSE IF w = "out" THEN "none"
    ELSE IF Minute(t) = HalfPastMinute /\ lt["halfpast"] # Hour(t) THEN "halfpast"
    ELSE IF Minute(t) = BellMinute /\ lt["bell"] # Hour(t) THEN "bell"
    ELSE "none"

go(th, where) == pc' = [pc EXCEPT ![th] = where]

\* while self.running: now = datetime.now()
TickBegin_ignoringStop ==
    /\ pc["timer"] = "loop"
    /\ t_now' = now /\ go("timer", "readStart")
    /\ UNCHANGED <<envVars, phase, config, running, suspVars, icon, last_trigger, t_start, t_kind, t_gnow, t_gstart, gciVars, menuVars, bootSt, fireHist, suspHist, stable>>
TickBegin ==
    /\ pc["timer"] = "loop"
    /\ IF running
       THEN t_now' = now /\ go("timer", "readStart")
       ELSE t_now' = t_now /\ go("timer", "stopped")
    /\ UNCHANGED <<envVars, phase, config, running, suspVars, icon, last_trigger, t_start, t_kind, t_gnow, t_gstart, gciVars, menuVars, bootSt, fireHist, suspHist, stable>>

\* work_start = self.config.get("work_start_hour")
TickReadStartOn(cfg) ==
    /\ pc["timer"] = "readStart"
    /\ t_start' = Get(cfg, "work_start_hour")
    /\ go("timer", "readEnd")
    /\ UNCHANGED <<envVars, phase, config, running, suspVars, icon, last_trigger, t_now, t_kind, t_gnow, t_gstart, gciVars, menuVars, bootSt, fireHist, suspHist, stable>>
TickReadStart == TickReadStartOn(config)

\* work_end = self.config.get("work_end_hour"), and the tests of lines
\* 101-107: on to play_alarm, or to time.sleep(30) and the next pass.  An
\* exception of the comparison ends run(), and the thread.
TickReadEndOn(cfg) ==
    /\ pc["timer"] = "readEnd"
    /\ LET d == TickDecision(t_start, Get(cfg, "work_end_hour"), t_now, last_trigger) IN
       /\ IF d = "crash" THEN go("timer", "crashed") ELSE IF d = "none" THEN go("timer", "loop") ELSE go("timer", "gatePaused")
       /\ t_now' = t_now
       /\ t_kind' = IF d \in Kinds THEN d ELSE "none"
       /\ IF d \in Kinds
          THEN /\ lastReq' = [lastReq EXCEPT ![d] = CalHour(t_now)]
               /\ reqCount' = [reqCount EXCEPT ![d] = IF lastReq[d] = CalHour(t_now) THEN @ + 1 ELSE 1]
          ELSE UNCHANGED <<lastReq, reqCount>>
    /\ t_start' = NonInt
    /\ UNCHANGED <<envVars, phase, config, running, suspVars, icon, last_trigger, t_gnow, t_gstart, gciVars, menuVars, bootSt, played, lastGate, suspHist, stable>>
TickReadEnd == TickReadEndOn(config)

\* play_alarm: if self.is_paused: return
GatePaused_skippingLedger ==
    /\ pc["timer"] = "gatePaused"
    /\ IF is_paused
       THEN /\ go("timer", "loop")
            /\ lastGate' = [lastGate EXCEPT ![t_kind] = Gate(CalHour(t_now), "suppressed")]
            /\ t_kind' = "none"
       ELSE /\ go("timer", "gateNow")
            /\ lastGate' = lastGate
            /\ t_kind' = t_kind
    /\ UNCHANGED <<envVars, phase, config, running, suspVars, icon, last_trigger, t_now, t_start, t_gnow, t_gstart, gciVars, menuVars, bootSt, lastReq, reqCount, played, suspHist, stable>>
GatePaused ==
    /\ pc["timer"] = "gatePaused"
    /\ IF is_paused
       THEN /\ go("timer", "setLedger")
            /\ lastGate' = [lastGate EXCEPT ![t_kind] = Gate(CalHour(t_now), "suppressed")]
       ELSE /\ go("timer", "gateNow")
            /\ lastGate' = lastGate
    /\ UNCHANGED <<envVars, phase, config, running, suspVars, icon, timerVars, gciVars, menuVars, bootSt, lastReq, reqCount, played, suspHist, stable>>

\* play_alarm: now = datetime.now()
GateNow ==
    /\ pc["timer"] = "gateNow"
    /\ t_gnow' = now
    /\ go("timer", "gateStart")
    /\ UNCHANGED <<envVars, phase, config, running, suspVars, icon, last_trigger, t_now, t_start, t_kind, t_gstart, gciVars, menuVars, bootSt, fireHist, suspHist, stable>>

\* play_alarm: work_start = self.config.get("work_start_hour")
GateReadStartOn(cfg) ==
    /\ pc["timer"] = "gateStart"
    /\ t_gstart' = Get(cfg, "work_start_hour")
    /\ go("timer", "gateEnd")
    /\ UNCHANGED <<envVars, phase, config, running, suspVars, icon, last_trigger, t_now, t_start, t_kind, t_gnow, gciVars, menuVars, bootSt, fireHist, suspHist, stable>>
GateReadStart == GateReadStartOn(config)

\* play_alarm: work_end = ..., and the test of line 258.  The comparison is
\* outside play_alarm's try: its exception ends run().
GateReadEndOn_honouringFlag(cfg) ==
    /\ pc["timer"] = "gateEnd"
    /\ LET w == InWindow(t_gstart, Hour(t_gnow), Get(cfg, "work_end_hour")) IN
       /\ IF w = "error" THEN go("timer", "crashed") ELSE IF w = "in" /\ Get(cfg, "sound_enabled") = BoolV(TRUE) THEN go("timer", "play") ELSE go("timer", "setLedger")
       /\ lastGate' = IF w = "out" \/ Get(cfg, "sound_enabled") # BoolV(TRUE) THEN [lastGate EXCEPT ![t_kind] = Gate(CalHour(t_now), "outofwindow")] ELSE lastGate
    /\ t_gnow' = None
    /\ t_gstart' = NonInt
    /\ UNCHANGED <<envVars, phase, config, running, suspVars, icon, last_trigger, t_now, t_start, t_kind, gciVars, menuVars, bootSt, lastReq, reqCount, played, suspHist, stable>>
GateReadEndOn(cfg) ==
    /\ pc["timer"] = "gateEnd"
    /\ LET w == InWindow(t_gstart, Hour(t_gnow), Get(cfg, "work_end_hour")) IN
       /\ IF w = "error" THEN go("timer", "crashed") ELSE IF w = "in" THEN go("timer", "play") ELSE go("timer", "setLedger")
       /\ lastGate' = IF w = "out" THEN [lastGate EXCEPT ![t_kind] = Gate(CalHour(t_now), "outofwindow")] ELSE lastGate
    /\ t_gnow' = None
    /\ t_gstart' = NonInt
    /\ UNCHANGED <<envVars, phase, config, running, suspVars, icon, last_trigger, t_now, t_start, t_kind, gciVars, menuVars, bootSt, lastReq, reqCount, played, suspHist, stable>>
GateReadEnd == GateReadEndOn(config)

\* play_alarm: the try block.  The sound plays, or its file is missing or
\* pygame raises, which is swallowed.
PlaySound_raising ==
    /\ pc["timer"] = "play"
    /\ \E ok \in BOOLEAN :
        /\ played' = IF ok THEN Sound("alarm", t_kind) ELSE played
        /\ lastGate' = [lastGate EXCEPT ![t_kind] = Gate(CalHour(t_now), IF ok THEN "played" ELSE "failed")]
        /\ go("timer", IF ok THEN "setLedger" ELSE "crashed")
    /\ UNCHANGED <<envVars, phase, config, running, suspVars, icon, timerVars, gciVars, menuVars, bootSt, lastReq, reqCount, suspHist, stable>>
PlaySound ==
    /\ pc["timer"] = "play"
    /\ \E ok \in BOOLEAN :
        /\ played' = IF ok THEN Sound("alarm", t_kind) ELSE played
        /\ lastGate' = [lastGate EXCEPT ![t_kind] = Gate(CalHour(t_now), IF ok THEN "played" ELSE "failed")]
    /\ go("timer", "setLedger")
    /\ UNCHANGED <<envVars, phase, config, running, suspVars, icon, timerVars, gciVars, menuVars, bootSt, lastReq, reqCount, suspHist, stable>>

\* last_trigger[kind] = current_hour, then time.sleep(30)
ledger_after_unset(lt, kind, t) == lt
ledger_after(lt, kind, t) == [lt EXCEPT ![kind] = Hour(t)]
SetLedger ==
    /\ pc["timer"] = "setLedger"
    /\ last_trigger' = ledger_after(last_trigger, t_kind, t_now)
    /\ t_kind' = "none"
    /\ t_now' = t_now
    /\ go("timer", "loop")
    /\ UNCHANGED <<envVars, phase, config, running, suspVars, icon, t_start, t_gnow, t_gstart, gciVars, menuVars, bootSt, fireHist, suspHist, stable>>

\* ------------------------------------------------------------- get_current_image
\* Run by the refresh thread (update_timer_loop, every 60 s) and by the menu
\* thread at the end of pause_alarms and unpause_alarms.
\* The call returns: the image goes into the tray icon.
GciReturn(th, img) ==
    /\ icon' = img
    /\ g_now' = [g_now EXCEPT ![th] = None]
    /\ go(th, IF th = "status" THEN "g_now" ELSE "idle")
\* The call raises: update_timer_loop ends; a menu callback is abandoned.
GciRaise(th) ==
    /\ icon' = icon
    /\ g_now' = [g_now EXCEPT ![th] = None]
    /\ go(th, IF th = "status" THEN "crashed" ELSE "idle")
\* The call goes on.
GciGo(th, where) ==
    /\ icon' = icon
    /\ g_now' = g_now
    /\ go(th, where)

\* now = datetime.now()
GciNow(th) ==
    /\ pc[th] = "g_now"
    /\ g_now' = [g_now EXCEPT ![th] = now]
    /\ stable' = [stable EXCEPT ![th] = TRUE]
    /\ go(th, "g_chkP")
    /\ UNCHANGED <<envVars, phase, config, running, suspVars, icon, timerVars, g_start, menuVars, bootSt, fireHist, suspHist>>

\* if self.is_paused ...
GciChkPaused(th) ==
    /\ pc[th] = "g_chkP"
    /\ GciGo(th, IF is_paused THEN "g_chkU" ELSE "g_mode")
    /\ UNCHANGED <<envVars, phase, config, running, suspVars, timerVars, g_start, menuVars, bootSt, fireHist, suspHist, stable>>

\* ... and self.pause_until ...
GciChkUntil(th) ==
    /\ pc[th] = "g_chkU"
    /\ GciGo(th, IF pause_until # None THEN "g_chkC" ELSE "g_mode")
    /\ UNCHANGED <<envVars, phase, config, running, suspVars, timerVars, g_start, menuVars, bootSt, fireHist, suspHist, stable>>

\* ... and now >= self.pause_until: a second read of pause_until; comparing
\* a datetime with None raises TypeError.
expired_strict(t, until) == t > until
expired(t, until) == t >= until
GciChkExpired(th) ==
    /\ pc[th] = "g_chkC"
    /\ IF pause_until = None
       THEN GciRaise(th)
       ELSE GciGo(th, IF expired(g_now[th], pause_until) THEN "g_clrP" ELSE "g_mode")
    /\ UNCHANGED <<envVars, phase, config, running, suspVars, timerVars, g_start, menuVars, bootSt, fireHist, suspHist, stable>>

\* self.is_paused = False
GciClearPaused(th) ==
    /\ pc[th] = "g_clrP"
    /\ is_paused' = FALSE
    /\ stable' = Disturbed(th)
    /\ GciGo(th, "g_clrU")
    /\ UNCHANGED <<envVars, phase, config, running, pause_until, timerVars, g_start, menuVars, bootSt, fireHist, suspHist>>

\* self.pause_until = None
GciClearUntil(th) ==
    /\ pc[th] = "g_clrU"
    /\ pause_until' = None
    /\ stable' = Disturbed(th)
    /\ GciGo(th, "g_mode")
    /\ UNCHANGED <<envVars, phase, config, running, is_paused, timerVars, g_start, menuVars, bootSt, fireHist, suspHist>>

\* if self.is_paused: return the paused image
GciMode(th) ==
    /\ pc[th] = "g_mode"
    /\ IF is_paused THEN GciReturn(th, image(TRUE, "out")) ELSE GciGo(th, "g_rs")
    /\ UNCHANGED <<envVars, phase, config, running, suspVars, timerVars, g_start, menuVars, bootSt, fireHist, suspHist, stable>>

\* work_start = self.config.get("work_start_hour")
GciReadStartOn(th, cfg) ==
    /\ pc[th] = "g_rs"
    /\ g_start' = [g_start EXCEPT ![th] = Get(cfg, "work_start_hour")]
    /\ GciGo(th, "g_re")
    /\ UNCHANGED <<envVars, phase, config, running, suspVars, timerVars, menuVars, bootSt, fireHist, suspHist, stable>>
GciReadStart(th) == GciReadStartOn(th, config)

\* work_end = ..., the comparison and the return
GciReadEndOn(th, cfg) ==
    /\ pc[th] = "g_re"
    /\ LET w == InWindow(g_start[th], Hour(g_now[th]), Get(cfg, "work_end_hour")) IN
       IF w = "error" THEN GciRaise(th) ELSE GciReturn(th, image(FALSE, w))
    /\ g_start' = [g_start EXCEPT ![th] = NonInt]
    /\ UNCHANGED <<envVars, phase, config, running, suspVars, timerVars, menuVars, bootSt, fireHist, suspHist, stable>>
GciReadEnd(th) == GciReadEndOn(th, config)

\* ------------------------------------------------------------- the menu
\* The arguments the menu passes: pause_alarms(30), pause_alarms(60), and
\* two of the work-hour presets.
PauseMinutes == {30, 60}
Presets == {<<8, 18>>, <<9, 19>>}

\* pause_alarms: self.is_paused = True
PauseAlarms(minutes) ==
    /\ pc["menu"] = "idle"
    /\ is_paused' = TRUE
    /\ m_a' = minutes
    /\ suspOp' = "pause"
    /\ stable' = Disturbed("menu")
    /\ go("menu", "p_until")
    /\ UNCHANGED <<envVars, phase, config, running, pause_until, icon, timerVars, gciVars, m_b, bootSt, fireHist, pauseReq>>

\* pause_alarms: self.pause_until = datetime.now() + timedelta(minutes=minutes)
deadline(t, minutes) == t + minutes
PauseSetUntil ==
    /\ pc["menu"] = "p_until"
    /\ pause_until' = deadline(now, m_a)
    /\ pauseReq' = now + m_a
    /\ m_a' = 0
    /\ stable' = Disturbed("menu")
    /\ go("menu", "g_now")
    /\ UNCHANGED <<envVars, phase, config, running, is_paused, icon, timerVars, gciVars, m_b, bootSt, fireHist, suspOp>>

\* unpause_alarms (the menu enables Resume while is_paused):
\* self.is_paused = False
UnpauseAlarms ==
    /\ pc["menu"] = "idle"
    /\ is_paused
    /\ is_paused' = FALSE
    /\ suspOp' = "resume"
    /\ stable' = Disturbed("menu")
    /\ go("menu", "u_until")
    /\ UNCHANGED <<envVars, phase, config, running, pause_until, icon, timerVars, gciVars, menuVars, bootSt, fireHist, pauseReq>>

\* unpause_alarms: self.pause_until = None
cleared_until_kept(until) == until
cleared_until(until) == None
UnpauseClearUntil ==
    /\ pc["menu"] = "u_until"
    /\ pause_until' = cleared_until(pause_until)
    /\ stable' = Disturbed("menu")
    /\ go("menu", "g_now")
    /\ UNCHANGED <<envVars, phase, config, running, is_paused, icon, timerVars, gciVars, menuVars, bootSt, fireHist, suspHist>>

\* Config.set: self.config[key] = value, then save_config; the dictionary
\* and the file afterwards
with_key(cfg, key, value) == [k \in DOMAIN cfg \cup {key} |-> IF k = key THEN value ELSE cfg[k]]
config_set_if_saved(cfg, f, key, value, outcome) == [config |-> IF outcome = "ok" THEN with_key(cfg, key, value) ELSE cfg, file |-> save_config(with_key(cfg, key, value), f, outcome)]
config_set(cfg, f, key, value, outcome) == [config |-> with_key(cfg, key, value), file |-> save_config(with_key(cfg, key, value), f, outcome)]

\* set_work_hours: self.config.set("work_start_hour", start_hour)
SetWorkHoursOn(start_hour, end_hour, cfg, f, cfgN, fN) ==
    /\ pc["menu"] = "idle"
    /\ \E outcome \in WriteOutcomes :
        LET r == config_set(cfg, f, "work_start_hour", IntV(start_hour), outcome) IN
        /\ cfgN = r.config
        /\ fN = r.file
    /\ m_a' = start_hour /\ m_b' = end_hour
    /\ stable' = Disturbed("menu")
    /\ go("menu", "w_end")
    /\ UNCHANGED <<now, phase, running, suspVars, icon, timerVars, gciVars, bootSt, fireHist, suspHist>>
SetWorkHours(start_hour, end_hour) == SetWorkHoursOn(start_hour, end_hour, config, file, config', file')

\* set_work_hours: self.config.set("work_end_hour", end_hour)
SetWorkHoursEndOn(cfg, f, cfgN, fN) ==
    /\ pc["menu"] = "w_end"
    /\ \E outcome \in WriteOutcomes :
        LET r == config_set(cfg, f, "work_end_hour", IntV(m_b), outcome) IN
        /\ cfgN = r.config
        /\ fN = r.file
    /\ m_a' = 0 /\ m_b' = 0
    /\ stable' = Disturbed("menu")
    /\ go("menu", "idle")
    /\ UNCHANGED <<now, phase, running, suspVars, icon, timerVars, gciVars, bootSt, fireHist, suspHist>>
SetWorkHoursEnd == SetWorkHoursEndOn(config, file, config', file')

\* test_sound: plays the sound of the kind, or swallows the failure
TestSound_throughGate(kind) ==
    /\ pc["menu"] = "idle"
    /\ ~is_paused
    /\ InWindow(Get(config, "work_start_hour"), Hour(now), Get(config, "work_end_hour")) = "in"
    /\ \E ok \in BOOLEAN : played' = IF ok THEN Sound("test", kind) ELSE played
    /\ UNCHANGED <<envVars, phase, config, running, suspVars, icon, pc, timerVars, gciVars, menuVars, bootSt, lastReq, reqCount, lastGate, suspHist, stable>>
TestSound(kind) ==
    /\ pc["menu"] = "idle"
    /\ \E ok \in BOOLEAN : played' = IF ok THEN Sound("test", kind) ELSE played
    /\ UNCHANGED <<envVars, phase, config, running, suspVars, icon, pc, timerVars, gciVars, menuVars, bootSt, lastReq, reqCount, lastGate, suspHist, stable>>

\* exit_app: self.alarm_timer.stop(); self.icon.stop()
ExitApp ==
    /\ pc["menu"] = "idle"
    /\ running' = FALSE
    /\ go("menu", "exited")
    /\ UNCHANGED <<envVars, phase, config, suspVars, icon, timerVars, gciVars, menuVars, bootSt, fireHist, suspHist, stable>>

\* ------------------------------------------------------------- Next
Timer == TickBegin \/ TickReadStart \/ TickReadEnd \/ GatePaused \/ GateNow \/ GateReadStart \/ GateReadEnd \/ PlaySound \/ SetLedger
Gci(th) == GciNow(th) \/ GciChkPaused(th) \/ GciChkUntil(th) \/ GciChkExpired(th) \/ GciClearPaused(th) \/ GciClearUntil(th) \/ GciMode(th) \/ GciReadStart(th) \/ GciReadEnd(th)
Menu ==
    \/ \E minutes \in PauseMinutes : PauseAlarms(minutes)
    \/ PauseSetUntil
    \/ UnpauseAlarms
    \/ UnpauseClearUntil
    \/ \E p \in Presets : SetWorkHours(p[1], p[2])
    \/ SetWorkHoursEnd
    \/ \E kind \in Kinds : TestSound(kind)
    \/ ExitApp
MenuPause == (\E minutes \in PauseMinutes : PauseAlarms(minutes)) \/ PauseSetUntil \/ UnpauseAlarms \/ UnpauseClearUntil
MenuHours == (\E p \in Presets : SetWorkHours(p[1], p[2])) \/ SetWorkHoursEnd
Next == LoadConfig \/ StartApp \/ Advance \/ Timer \/ (\E th \in GciThreads : Gci(th)) \/ Menu
Spec == Init /\ [][Next]_vars

\* The timer thread, the clock and the work-hour menu over MaxDay days,
\* from a configuration file that holds the defaults or only a start hour.
NextFire == LoadConfig \/ StartApp \/ Advance \/ Timer \/ MenuHours
InitFire == InitWith({Stored(default_config), Stored("work_start_hour" :> IntV(9))}, StartTime)
SpecFire == InitFire /\ [][NextFire]_vars

\* The same threads over the last day, from every file the program may find
\* at startup.
InitConfig == InitWith(InitFiles, LastDayStart)
SpecConfig == InitConfig /\ [][NextFire]_vars

\* The refresh thread, the menu thread with its pause items, and the clock,
\* from a configuration file that holds the defaults, over the last day.
\* The timer thread writes none of is_paused, pause_until, config and icon.
InitSusp == InitWith({Stored(default_config)}, LastDayStart)
NextSusp == LoadConfig \/ StartApp \/ Advance \/ (\E th \in GciThreads : Gci(th)) \/ MenuPause
SpecSusp == InitSusp /\ [][NextSusp]_vars

\* The timer thread, the menu thread with its pause items, and the clock,
\* while the refresh thread sleeps.
NextGate == LoadConfig \/ StartApp \/ Advance \/ Timer \/ Gci("menu") \/ MenuPause
SpecGate == InitSusp /\ [][NextGate]_vars

\* The timer thread, the clock and the Exit item of the menu.  The timer
\* thread is a started thread whose time.sleep(30) returns: it keeps taking
\* its steps.
NextExit == LoadConfig \/ StartApp \/ Advance \/ Timer \/ ExitApp
SpecExit == InitFire /\ [][NextExit]_vars /\ WF_vars(Timer)

\* The timer thread and the menu thread with its pause and work-hour items,
\* from minute 29 of the last hour on, from a configuration file that holds
\* the three keys, with sound_enabled true or false, or lacks sound_enabled.
LastHalfPast == ((MaxDay - 1) * 24 + FirstHour + NumHours - 1) * 60 + HalfPastMinute
FlagFiles == { Stored(default_config), Stored([default_config EXCEPT !["sound_enabled"] = BoolV(FALSE)]), Stored("work_start_hour" :> IntV(9)) }
InitFlag == InitWith(FlagFiles, LastHalfPast)
NextFlag == LoadConfig \/ StartApp \/ Advance \/ Timer \/ Gci("menu") \/ MenuPause \/ MenuHours
SpecFlag == InitFlag /\ [][NextFlag]_vars

\* The timer thread and the menu thread with its pause and test items, from
\* minute 29 of the last hour on, from a configuration file that holds the
\* defaults or only a start hour.
InitTest == InitWith({Stored(default_config), Stored("work_start_hour" :> IntV(9))}, LastHalfPast)
NextTest == LoadConfig \/ StartApp \/ Advance \/ Timer \/ Gci("menu") \/ MenuPause \/ (\E kind \in Kinds : TestSound(kind))
SpecTest == InitTest /\ [][NextTest]_vars

\* The timer thread, the clock and the work-hour menu over the last day, from
\* a configuration file that holds the defaults.
HoursFiles == {Stored(default_config)}
InitHours == InitWith(HoursFiles, LastDayStart)
SpecHours == InitHours /\ [][NextFire]_vars

\* ============================================================= claims

\* C1: for each kind and each calendar hour (day and hour-of-day),
\* AlarmTimer.run calls play_alarm at most once, however many passes of its
\* loop read a time inside the target minute of that hour.
C1_AtMostOneRequestPerCalendarHour == \A k \in Kinds : reqCount[k] <= 1
\* a later pass reads the same target minute of the calendar hour for which
\* halfpast was already requested
C1_Witness ==
    /\ pc["timer"] = "readEnd"
    /\ Minute(t_now) = HalfPastMinute
    /\ lastReq["halfpast"] = CalHour(t_now)
    /\ reqCount["halfpast"] = 1
    /\ t_start.ty = "int" /\ t_start.n <= Hour(t_now)

\* C2: a pass of the loop that reads minute 29 of an hour inside the window
\* (the window unchanged, nothing paused) leaves a halfpast fire recorded for
\* that calendar hour, and likewise minute 59 and bell: on every day.
TargetKind(t) == IF Minute(t) = HalfPastMinute THEN "halfpast" ELSE IF Minute(t) = BellMinute THEN "bell" ELSE "none"
TickDecides == pc["timer"] = "readEnd" /\ pc'["timer"] # "readEnd"
\* the pair (work_start, work_end) the pass compares with, when both are integers
TickPairIsInt == t_start.ty = "int" /\ Get(config, "work_end_hour").ty = "int"
TickHourInPair == t_start.n <= Hour(t_now) /\ Hour(t_now) < Get(config, "work_end_hour").n
C2_EveryCalendarHourFires ==
    [][ ( /\ TickDecides
          /\ TargetKind(t_now) \in Kinds
          /\ ~is_paused
          /\ t_start = Get(config, "work_start_hour")
          /\ TickPairIsInt /\ TickHourInPair )
        => lastReq'[TargetKind(t_now)] = CalHour(t_now) ]_vars

\* C3: once pause_alarms(m) has set its deadline at time T, and until
\* unpause_alarms is called, is_paused reads True at every time before T + m.
C3_PauseHoldsUntilDeadline == (suspOp = "pause" /\ pc["menu"] # "p_until" /\ now < pauseReq) => is_paused

\* C4: when play_alarm reads is_paused at a time at or after pause_until
\* (no menu callback under way), it finds the alarms not paused and goes on
\* to play.
C4_GateSeesExpiry ==
    [][ ( /\ pc["timer"] = "gatePaused" /\ pc'["timer"] # "gatePaused"
          /\ pc["menu"] = "idle"
          /\ pause_until # None /\ now >= pause_until )
        => pc'["timer"] = "gateNow" ]_vars

\* C5: a pass of the loop whose hour is outside [work_start, work_end), the
\* pair it read, calls nothing and changes nothing: no play_alarm call, no
\* sound, last_trigger as it was.  An empty window (start >= end) is such a
\* pair at every hour.
C5_OutOfWindowPassDoesNothing ==
    [][ (TickDecides /\ TickPairIsInt /\ ~TickHourInPair)
        => (pc'["timer"] = "loop" /\ last_trigger' = last_trigger /\ played' = played /\ lastReq' = lastReq /\ reqCount' = reqCount) ]_vars
\* a pass has read minute 29 of an hour before the window and has ended
\* without a request ...
C5_Witness ==
    /\ pc["timer"] = "loop" /\ t_now = now
    /\ Minute(t_now) = HalfPastMinute
    /\ config["work_start_hour"].ty = "int" /\ config["work_end_hour"].ty = "int"
    /\ Hour(t_now) < config["work_start_hour"].n
    /\ config["work_start_hour"].n < config["work_end_hour"].n
    /\ lastReq["halfpast"] # CalHour(t_now)
    /\ last_trigger["halfpast"] # Hour(t_now)

\* C6: from the moment unpause_alarms has made its two assignments until the
\* next pause_alarms call, is_paused is False and pause_until is None.
C6_ResumeClears == (suspOp = "resume" /\ pc["menu"] # "u_until") => (~is_paused /\ pause_until = None)
\* resumed, and the deadline of the pause it ended still lies ahead
C6_Witness == suspOp = "resume" /\ pc["menu"] = "idle" /\ now < pauseReq /\ ~is_paused /\ pause_until = None

\* C7: while it has not been told to stop, the timer thread never ends.
C7_TimerStaysAlive == running => pc["timer"] # "crashed"

\* C8 as claimed: after load_config found the file missing, unreadable or
\* malformed, the dictionary holds the defaults and so does the file.
FallbackCases == {"missing", "unreadable", "malformed"}
C8_DefaultsWrittenBack == (phase = "loaded" /\ bootSt \in FallbackCases) => (config = default_config /\ file = Stored(default_config))
\* C8 amended: in the three cases the dictionary holds the defaults; the
\* file is written only when it was missing (it then holds the defaults if
\* the write succeeded); an unreadable or malformed file is left as found.
C8_DefaultsInMemory ==
    (phase = "loaded" /\ bootSt \in FallbackCases)
        => /\ config = default_config
           /\ bootSt = "missing" => file \in {Stored(default_config), Missing, Malformed}
           /\ bootSt # "missing" => file.st = bootSt
C8_Witness == phase = "loaded" /\ bootSt = "missing" /\ config = default_config /\ file = Stored(default_config)

\* C9: a Config.set whose write fails still leaves the new value in the
\* dictionary, and set_work_hours goes on to its next statement.
SetsStart == pc["menu"] = "idle" /\ pc'["menu"] = "w_end"
SetsEnd == pc["menu"] = "w_end" /\ pc'["menu"] = "idle"
C9_SetUpdatesMemory ==
    [][ /\ (SetsStart /\ file' # Stored(config')) => Get(config', "work_start_hour") = IntV(m_a')
        /\ (SetsEnd /\ file' # Stored(config')) => Get(config', "work_end_hour") = IntV(m_b) ]_vars
\* set_work_hours(9, 19) has put 9 in memory while the file still holds 8
C9_Witness ==
    /\ pc["menu"] = "w_end"
    /\ config["work_start_hour"] = IntV(m_a)
    /\ file.st = "ok" /\ "work_start_hour" \in DOMAIN file.rec
    /\ file.rec["work_start_hour"] # config["work_start_hour"]

\* C10: a get_current_image call during which the clock, the suspension
\* state and the configuration stay as they are returns Suspended when
\* is_paused holds and pause_until has not passed, else Active when
\* work_start <= hour < work_end, else Inactive.
GciReturns(th) == pc[th] \in {"g_mode", "g_re"} /\ pc'[th] \in {"idle", "g_now"}
SuspendedNow == is_paused /\ ~(pause_until # None /\ now >= pause_until)
ConfigIsInt == Get(config, "work_start_hour").ty = "int" /\ Get(config, "work_end_hour").ty = "int"
HourInConfig == Get(config, "work_start_hour").n <= Hour(now) /\ Hour(now) < Get(config, "work_end_hour").n
C10_ModeFollowsState ==
    [][ \A th \in GciThreads :
          (GciReturns(th) /\ stable[th] /\ ConfigIsInt)
            => icon' = (IF SuspendedNow THEN "Suspended" ELSE IF HourInConfig THEN "Active" ELSE "Inactive") ]_vars
\* a pause has run out, the next call cleared it and the icon is Active again
C10_Witness == suspOp = "pause" /\ pauseReq # None /\ now >= pauseReq /\ ~is_paused /\ pause_until = None /\ icon = "Active" /\ stable["status"]

\* C11: once exit_app has called AlarmTimer.stop, the loop of run() begins no
\* further pass: the pass under way, if any, goes to its end, and at the next
\* test of self.running the thread ends.
Exited == pc["menu"] = "exited"
C11_StopHonoured ==
    /\ [][ (Exited /\ pc["timer"] = "loop") => pc'["timer"] \in {"loop", "stopped"} ]_vars
    /\ (Exited ~> pc["timer"] = "stopped")
\* stopped after a pass that requested halfpast for this very hour
C11_Witness ==
    /\ Exited /\ ~running /\ pc["timer"] = "stopped"
    /\ t_now = now /\ Minute(now) = HalfPastMinute
    /\ lastReq["halfpast"] = CalHour(now) /\ last_trigger["halfpast"] = Hour(now)

\* C12: when load_config reads a well-formed file that lacks some of the
\* three keys, the dictionary holds the default for each key the file lacks
\* and the file's value for each key it has; Config.get of a key the
\* dictionary lacks returns the default.
C12_MissingKeysBackFilled ==
    /\ (phase = "loaded" /\ bootSt = "ok") =>
          \A k \in Keys : config[k] = (IF k \in DOMAIN file.rec THEN file.rec[k] ELSE default_config[k])
    /\ \A k \in Keys : k \notin DOMAIN config => Get(config, k) = default_config[k]
\* loaded from a file that holds only work_start_hour = 9
C12_Witness ==
    /\ phase = "loaded" /\ bootSt = "ok"
    /\ DOMAIN file.rec = {"work_start_hour"}
    /\ config = [work_start_hour |-> IntV(9), work_end_hour |-> IntV(DefaultEnd), sound_enabled |-> BoolV(TRUE)]

\* C13: a play_alarm call that finds is_paused set plays nothing, and the
\* pass still sets last_trigger for the kind to its hour; so after
\* unpause_alarms no later pass of that calendar hour requests or plays the
\* kind.
GateTestsPaused == pc["timer"] = "gatePaused" /\ pc'["timer"] # "gatePaused"
LedgerIsSet == pc["timer"] = "setLedger" /\ pc'["timer"] # "setLedger"
Requested(k) == lastReq'[k] # lastReq[k] \/ reqCount'[k] # reqCount[k]
Emits == pc["timer"] = "play" /\ pc'["timer"] # "play" /\ played' = Sound("alarm", t_kind)
GateEnded(k, t, res) == lastGate[k] = Gate(CalHour(t), res)
C13_SuppressedFireIsSpent ==
    [][ /\ (GateTestsPaused /\ is_paused) => (pc'["timer"] = "setLedger" /\ played' = played)
        /\ (LedgerIsSet /\ GateEnded(t_kind, t_now, "suppressed")) => last_trigger'[t_kind] = Hour(t_now)
        /\ \A k \in Kinds : Requested(k) => ~GateEnded(k, t_now, "suppressed")
        /\ Emits => ~GateEnded(t_kind, t_now, "suppressed") ]_vars
\* halfpast was suppressed in this hour, the alarms were resumed, and a later
\* pass reads minute 29 of the same hour
C13_Witness ==
    /\ pc["timer"] = "readEnd" /\ t_now = now /\ Minute(now) = HalfPastMinute
    /\ t_start.ty = "int" /\ t_start.n <= Hour(now)
    /\ GateEnded("halfpast", now, "suppressed")
    /\ last_trigger["halfpast"] = Hour(now)
    /\ suspOp = "resume" /\ ~is_paused /\ pc["menu"] = "idle"
    /\ played = Silence

\* C14: when the sound file is missing or pygame raises, play_alarm swallows
\* the failure: the pass goes on, sets last_trigger for the kind to its hour,
\* and no later pass of that calendar hour requests the kind again.
SoundStepEnds == pc["timer"] = "play" /\ pc'["timer"] # "play"
C14_FailedSoundIsSwallowed ==
    [][ /\ SoundStepEnds => pc'["timer"] = "setLedger"
        /\ (LedgerIsSet /\ GateEnded(t_kind, t_now, "failed")) => last_trigger'[t_kind] = Hour(t_now)
        /\ \A k \in Kinds : Requested(k) => ~GateEnded(k, t_now, "failed") ]_vars
\* the halfpast sound of this hour failed, and a later pass reads minute 29 of
\* the same hour
C14_Witness ==
    /\ pc["timer"] = "readEnd" /\ t_now = now /\ Minute(now) = HalfPastMinute
    /\ t_start.ty = "int" /\ t_start.n <= Hour(now)
    /\ GateEnded("halfpast", now, "failed")
    /\ last_trigger["halfpast"] = Hour(now)
    /\ played = Silence

\* C15: play_alarm tests the window again with its own reads of the clock
\* and of the configuration: when, after the pass decided to fire, the work
\* hours have been changed so that the hour is outside
\* [work_start, work_end), play_alarm plays nothing.
GateDecides == pc["timer"] = "gateEnd" /\ pc'["timer"] # "gateEnd"
C15_GateRechecksWindow ==
    [][ (GateDecides /\ pc["menu"] = "idle" /\ ConfigIsInt /\ ~HourInConfig)
            => (pc'["timer"] = "setLedger" /\ played' = played) ]_vars

\* C16: pause_alarms(m) called at time T leaves is_paused True and
\* pause_until = T + m, whatever the two held before.
PauseDeadlineSet == pc["menu"] = "p_until" /\ pc'["menu"] # "p_until"
C16_PauseSetsBoth == [][ PauseDeadlineSet => (is_paused' /\ pause_until' = now + m_a) ]_vars

\* C17: sound_enabled has no part in what the program does.  Take any step
\* of the program and turn sound_enabled over, in the dictionary and in the
\* file, before and after the step: the result is again a step of the same
\* operation, with every other variable as it was.  So two runs that start
\* from files differing in sound_enabled only and get the same passes, times
\* and menu calls go through the same states but for that flag: the same
\* sounds, the same last_trigger, the same is_paused and pause_until.
FlagKey == "sound_enabled"
Flip(cfg) == [k \in DOMAIN cfg \cup {FlagKey} |-> IF k = FlagKey THEN BoolV(Get(cfg, FlagKey) # BoolV(TRUE)) ELSE cfg[k]]
\* the dictionary of the other run: still empty before load_config
FlipMem(cfg) == IF DOMAIN cfg = {} THEN cfg ELSE Flip(cfg)
FlipFile(f) == IF f.st = "ok" THEN Stored(Flip(f.rec)) ELSE f
C17_FlagIsInert ==
    [][ /\ LoadConfig => LoadConfigOn(FlipFile(file), FlipMem(config'), FlipFile(file'))
        /\ StartApp => StartAppOn(FlipMem(config))
        /\ TickReadStart => TickReadStartOn(FlipMem(config))
        /\ TickReadEnd => TickReadEndOn(FlipMem(config))
        /\ GateReadStart => GateReadStartOn(FlipMem(config))
        /\ GateReadEnd => GateReadEndOn(FlipMem(config))
        /\ \A th \in GciThreads : GciReadStart(th) => GciReadStartOn(th, FlipMem(config))
        /\ \A th \in GciThreads : GciReadEnd(th) => GciReadEndOn(th, FlipMem(config))
        /\ \A p \in Presets : SetWorkHours(p[1], p[2]) => SetWorkHoursOn(p[1], p[2], FlipMem(config), FlipFile(file), FlipMem(config'), FlipFile(file'))
        /\ SetWorkHoursEnd => SetWorkHoursEndOn(FlipMem(config), FlipFile(file), FlipMem(config'), FlipFile(file')) ]_vars
\* sound_enabled is false, and the bell alarm of this hour was played
C17_Witness ==
    /\ phase = "up" /\ config[FlagKey] = BoolV(FALSE)
    /\ GateEnded("bell", now, "played")
    /\ played = Sound("alarm", "bell")
    /\ last_trigger["bell"] = Hour(now)

\* C18: set_work_hours is seen as one change: the pair (work_start, work_end)
\* that a pass of the timer loop, play_alarm or get_current_image compares
\* with is the pair load_config established or the pair of one
\* set_work_hours call, and so is the pair in the file.
PairOf(cfg) == <<Get(cfg, "work_start_hour"), Get(cfg, "work_end_hour")>>
WholePairs == { PairOf(load_config(f).config) : f \in HoursFiles } \cup { <<IntV(p[1]), IntV(p[2])>> : p \in Presets }
C18_WindowPairIsWhole ==
    /\ pc["timer"] = "readEnd" => <<t_start, Get(config, "work_end_hour")>> \in WholePairs
    /\ pc["timer"] = "gateEnd" => <<t_gstart, Get(config, "work_end_hour")>> \in WholePairs
    /\ \A th \in GciThreads : pc[th] = "g_re" => <<g_start[th], Get(config, "work_end_hour")>> \in WholePairs
    /\ (phase = "up" /\ file.st = "ok") => PairOf(file.rec) \in WholePairs

\* C19: whenever neither pause_alarms, unpause_alarms nor get_current_image
\* is midway, on the menu thread or on the refresh thread, is_paused holds
\* exactly when pause_until is set.
NothingMidway == pc["menu"] \in {"off", "idle"} /\ pc["status"] \in {"off", "g_now"}
C19_PausedIffDeadline == NothingMidway => (is_paused <=> pause_until # None)

\* C20: test_sound plays its sound whether or not the alarms are paused and
\* whether or not the hour is inside the work hours, and it changes neither
\* is_paused, pause_until, the configuration nor last_trigger: the alarm of
\* the hour is still due.
TestPlays == played' # played /\ played'.by = "test"
C20_TestSoundIsFree ==
    /\ [](pc["menu"] = "idle" => \A kind \in Kinds : ENABLED (TestSound(kind) /\ played' = Sound("test", kind)))
    /\ [][ TestPlays => UNCHANGED <<is_paused, pause_until, config, file, last_trigger, running, pc>> ]_vars
\* paused, the hour outside the work hours, the test sound played and
\* last_trigger still empty
C20_Witness ==
    /\ pc["menu"] = "idle" /\ is_paused /\ now < pause_until
    /\ ConfigIsInt /\ ~HourInConfig
    /\ played = Sound("test", "bell")
    /\ last_trigger = [k \in Kinds |-> NoHour]
====
